---- MODULE Spec2Model ----
(***************************************************************************)
(* Admission control of the inference service: InferenceService            *)
(* (app/services/inference.py), RequestQueue and InferenceRequest          *)
(* (app/core/queue.py) and the /generate route (app/api/routes.py).        *)
(*                                                                         *)
(* Everything but the engine call runs on one asyncio event loop, so a     *)
(* coroutine runs atomically from one suspension to the next.  An action   *)
(* of this module is one such run: it starts where a task is created or    *)
(* woken and ends where the task suspends (a contended asyncio.Lock, the   *)
(* await of run_in_executor, asyncio.sleep, asyncio.wait_for) or returns.  *)
(***************************************************************************)
EXTENDS Integers, Sequences, FiniteSets, TLC

\* Bounds of the model: the requests that exist, the requests the clients send
\* in a run of Spec, and the largest configured limits.
NumRequests == 5
NumClients == 3
MaxConcurrent == 2
MaxQueueSize == 2
\* The requests the clients send in a run of SpecStream, and the most
\* increments the backend produces for one streaming call.
NumStreams == 1
MaxTokens == 2
\* The largest word count or reported token count in a run of SpecStats.
MaxCount == 2
\* The largest budget asked for (BenchmarkRequest.max_tokens is 1..512) and the
\* largest throughput, in tokens per second, in a run of SpecBudget.
MaxBudget == 170
MaxRate == 13
\* The longest list of context sizes a benchmark is given (BenchmarkRequest
\* allows 4) and the most runs per context size (it allows 1..5), in a run of
\* SpecBench.
MaxCandidates == 3
MaxRuns == 3

Requests == 1..NumRequests
\* The task running start_queue_worker (main.py creates exactly one).
Worker == 0
\* A caller of InferenceService.benchmark.
BenchCaller == NumRequests + 1
Procs == Requests \cup {Worker, BenchCaller}

VARIABLES
    max_concurrent,     \* InferenceService.max_concurrent
    maxsize,            \* RequestQueue.maxsize (0: asyncio.Queue is unbounded)
    wait_for_suspends,  \* does wait_for(queue.get()) yield to the loop (Python <= 3.11)
    clients,            \* how many requests the clients send in this run
    modes,              \* the values of InferenceRequest.stream the clients use
    max_tokens,         \* most increments generate_stream yields for one call
    counts,             \* the word counts of the prompts and replies, and the
                        \* token counts the backend reports
    loaded,             \* LLMManager.is_loaded
    running,            \* InferenceService._running
    shutdown,           \* the ThreadPoolExecutor has been shut down
    active_count,       \* InferenceService._active_count
    request_queue,      \* RequestQueue._queue, head first
    lock_holder,        \* InferenceService._lock: the set of its holders
    lock_waiters,       \* InferenceService._lock._waiters, FIFO
    llm_holder,         \* InferenceService._llm_lock
    llm_waiters,
    in_engine,          \* backend calls running in the executor
    pc,                 \* where each task or caller stands
    submit_result,      \* what submit returned (or raised) per request
    http_status,        \* status /generate answered with, 0 while none
    done,               \* InferenceRequest._done is set
    error,              \* InferenceRequest._error ("none" for None)
    enq_log,            \* history: requests in the order put() enqueued them
    promo_log,          \* history: requests in the order get() handed them out
    stats,              \* InferenceRequest._stats (<<>> for the default {}),
                        \* of the requests /generate has constructed
    token_queue,        \* InferenceRequest._token_queue, head first, of the same
    loop_calls,         \* callbacks worker threads scheduled on the loop, FIFO
    produced,           \* history: the increments the backend produced, in order
    put_log,            \* history: every item put into _token_queue, in order
    streams,            \* the consumers of token_stream(), per request consumed:
                        \* pc (open, ended, raised), yielded, raised
    stats_calls,        \* the callers of get_stats(), per request asked for:
                        \* pc (waiting, returned), waited, result
    bench               \* the arguments, local variables and result of a call
                        \* of benchmark or of _recommend_max_tokens that is
                        \* followed through its computation

config == <<max_concurrent, maxsize, wait_for_suspends, clients, modes,
            max_tokens, counts>>
\* The fields of the InferenceRequest objects, the callbacks in flight between
\* the worker threads and the loop, and the consumers of the requests.
lifecycle == <<stats, token_queue, loop_calls, produced, put_log, streams,
               stats_calls>>
vars == <<max_concurrent, maxsize, wait_for_suspends, clients, modes,
          max_tokens, counts, loaded, running, shutdown,
          active_count, request_queue, lock_holder, lock_waiters, llm_holder,
          llm_waiters, in_engine, pc, submit_result, http_status,
          done, error, enq_log, promo_log,
          stats, token_queue, loop_calls, produced, put_log, streams,
          stats_calls, bench>>

\* The state the coroutines change, as one record: a run of a coroutine through
\* several calls is then a composition of functions on it.
State ==
    [active_count |-> active_count, request_queue |-> request_queue,
     lock_holder |-> lock_holder, lock_waiters |-> lock_waiters,
     llm_holder |-> llm_holder, llm_waiters |-> llm_waiters,
     in_engine |-> in_engine, pc |-> pc,
     submit_result |-> submit_result, http_status |-> http_status,
     done |-> done, error |-> error, enq_log |-> enq_log, promo_log |-> promo_log,
     stats |-> stats, token_queue |-> token_queue, loop_calls |-> loop_calls,
     produced |-> produced, put_log |-> put_log, streams |-> streams,
     stats_calls |-> stats_calls]

Becomes(s) ==
    \E x \in {s} :
        /\ active_count' = x.active_count
        /\ request_queue' = x.request_queue
        /\ lock_holder' = x.lock_holder
        /\ lock_waiters' = x.lock_waiters
        /\ llm_holder' = x.llm_holder
        /\ llm_waiters' = x.llm_waiters
        /\ in_engine' = x.in_engine
        /\ pc' = x.pc
        /\ submit_result' = x.submit_result
        /\ http_status' = x.http_status
        /\ done' = x.done
        /\ error' = x.error
        /\ enq_log' = x.enq_log
        /\ promo_log' = x.promo_log
        /\ stats' = x.stats
        /\ token_queue' = x.token_queue
        /\ loop_calls' = x.loop_calls
        /\ produced' = x.produced
        /\ put_log' = x.put_log
        /\ streams' = x.streams
        /\ stats_calls' = x.stats_calls

(***************************************************************************)
(* RequestQueue                                                            *)
(***************************************************************************)
size(q) == Len(q)

\* is_full that never reports a full queue.
is_full_never(q) == FALSE

\* is_full with the comparison off by one.
is_full_late(q) == maxsize > 0 /\ size(q) > maxsize

is_full(q) == maxsize > 0 /\ size(q) >= maxsize

\* The class of the exception put raises on a full queue.
PutError == "asyncio.QueueFull"

\* The exception classes `except RuntimeError` catches; asyncio.QueueFull
\* derives from Exception, not from RuntimeError.
RuntimeErrors == {"RuntimeError"}

\* generate's handling of an exception raised by submit: 429 for a RuntimeError,
\* anything else leaves the handler and the framework answers 500.
route_status(exc) == IF exc \in RuntimeErrors THEN 429 ELSE 500

(***************************************************************************)
(* asyncio.Lock: acquire returns at once when the lock is free and nobody  *)
(* waits, else the caller queues up; release frees the lock and wakes the  *)
(* first waiter, which takes the lock when it next runs.                   *)
(***************************************************************************)
lock_free(s) == s.lock_holder = {} /\ s.lock_waiters = <<>>

lock_take(s, p) == [s EXCEPT !.lock_holder = @ \cup {p}]

lock_wait(s, p, at) == [s EXCEPT !.lock_waiters = Append(@, p), !.pc[p] = at]

lock_release(s, p) == [s EXCEPT !.lock_holder = @ \ {p}]

\* _llm_lock that excludes nobody.
llm_free_always(s) == TRUE

llm_free(s) == s.llm_holder = {} /\ s.llm_waiters = <<>>

llm_take(s, p) == [s EXCEPT !.llm_holder = @ \cup {p}]

llm_wait(s, p) == [s EXCEPT !.llm_waiters = Append(@, p), !.pc[p] = "llm_wait"]

\* A release of _llm_lock that leaves it held.
llm_release_stuck(s, p) == s

\* A release of _llm_lock that only the requests' tasks perform.
llm_release_by_requests(s, p) ==
    IF p = BenchCaller THEN s ELSE [s EXCEPT !.llm_holder = @ \ {p}]

llm_release(s, p) == [s EXCEPT !.llm_holder = @ \ {p}]

(***************************************************************************)
(* InferenceRequest                                                        *)
(***************************************************************************)
\* The end-of-stream marker, None; the increments are the numbers from 1 on.
Sentinel == 0

\* The errors a request is failed with.
NotLoaded == "Model not loaded"
EngineError == "engine error"

\* InferenceRequest(...): the object /generate constructs for request r.
new_request(s, r) ==
    [s EXCEPT !.stats = @ @@ (r :> <<>>),
              !.token_queue = @ @@ (r :> <<>>),
              !.produced = @ @@ (r :> <<>>),
              !.put_log = @ @@ (r :> <<>>)]

\* _token_queue has no bound, so its put never suspends the caller.
queue_put(s, r, item) ==
    [s EXCEPT !.token_queue[r] = Append(@, item), !.put_log[r] = Append(@, item)]

\* put_token that puts the increment in front of what the channel holds.
put_token_front(s, r, token) ==
    [s EXCEPT !.token_queue[r] = <<token>> \o @, !.put_log[r] = <<token>> \o @]

\* put_token on a channel that holds one item at most: the delivery waits, and
\* is tried again, while the consumer has not taken the item before it.
put_token_bounded(s, r, token) ==
    IF Len(s.token_queue[r]) >= 1
    THEN [s EXCEPT !.loop_calls = <<[who |-> r, token |-> token]>> \o @]
    ELSE queue_put(s, r, token)

put_token(s, r, token) == queue_put(s, r, token)

complete(s, r, st) ==
    [queue_put([s EXCEPT !.stats[r] = st], r, Sentinel) EXCEPT !.done[r] = TRUE]

fail(s, r, e) ==
    [queue_put([s EXCEPT !.error[r] = e], r, Sentinel) EXCEPT !.done[r] = TRUE]

(***************************************************************************)
(* InferenceService                                                        *)
(***************************************************************************)
\* submit whose capacity test admits one request too many.
submit_section_off_by_one(s, r) ==
    IF s.active_count <= max_concurrent
    THEN [lock_release(s, r) EXCEPT !.active_count = @ + 1,
                                    !.pc[r] = "ready",
                                    !.submit_result[r] = "immediate"]
    ELSE IF is_full(s.request_queue)
    THEN [lock_release(s, r) EXCEPT !.pc[r] = "rejected",
                                    !.submit_result[r] = "busy",
                                    !.http_status[r] = route_status(PutError)]
    ELSE [lock_release(s, r) EXCEPT !.request_queue = Append(@, r),
                                    !.enq_log = Append(@, r),
                                    !.pc[r] = "queued",
                                    !.submit_result[r] = "queued"]

\* submit that drops the request of a full queue and reports it queued.
submit_section_dropping(s, r) ==
    IF s.active_count < max_concurrent
    THEN [lock_release(s, r) EXCEPT !.active_count = @ + 1,
                                    !.pc[r] = "ready",
                                    !.submit_result[r] = "immediate"]
    ELSE IF is_full(s.request_queue)
    THEN [lock_release(s, r) EXCEPT !.pc[r] = "queued",
                                    !.submit_result[r] = "queued"]
    ELSE [lock_release(s, r) EXCEPT !.request_queue = Append(@, r),
                                    !.enq_log = Append(@, r),
                                    !.pc[r] = "queued",
                                    !.submit_result[r] = "queued"]

\* submit that awaits the execution it starts inside `async with self._lock`.
submit_section_awaiting(s, r) ==
    IF s.active_count < max_concurrent
    THEN [s EXCEPT !.active_count = @ + 1, !.pc[r] = "ready"]
    ELSE IF is_full(s.request_queue)
    THEN [lock_release(s, r) EXCEPT !.pc[r] = "rejected",
                                    !.submit_result[r] = "busy",
                                    !.http_status[r] = route_status(PutError)]
    ELSE [lock_release(s, r) EXCEPT !.request_queue = Append(@, r),
                                    !.enq_log = Append(@, r),
                                    !.pc[r] = "queued",
                                    !.submit_result[r] = "queued"]

\* submit that queues whatever the size of the queue.
submit_section_unbounded(s, r) ==
    IF s.active_count < max_concurrent
    THEN [lock_release(s, r) EXCEPT !.active_count = @ + 1,
                                    !.pc[r] = "ready",
                                    !.submit_result[r] = "immediate"]
    ELSE [lock_release(s, r) EXCEPT !.request_queue = Append(@, r),
                                    !.enq_log = Append(@, r),
                                    !.pc[r] = "queued",
                                    !.submit_result[r] = "queued"]

\* submit, lines 66-83, entered with _lock held and left with it released.
submit_section(s, r) ==
    IF s.active_count < max_concurrent
    THEN [lock_release(s, r) EXCEPT !.active_count = @ + 1,
                                    !.pc[r] = "ready",
                                    !.submit_result[r] = "immediate"]
    ELSE IF is_full(s.request_queue)
    THEN [lock_release(s, r) EXCEPT !.pc[r] = "rejected",
                                    !.submit_result[r] = "busy",
                                    !.http_status[r] = route_status(PutError)]
    ELSE [lock_release(s, r) EXCEPT !.request_queue = Append(@, r),
                                    !.enq_log = Append(@, r),
                                    !.pc[r] = "queued",
                                    !.submit_result[r] = "queued"]

submit(s, r) ==
    IF lock_free(s) THEN submit_section(lock_take(s, r), r)
    ELSE lock_wait(s, r, "submit_wait")

\* Where a promoter goes after _process_next_queued: an execution task ends, the
\* worker tests _running at the top of its loop.
end_pc(p) == IF p = Worker THEN (IF running THEN "sleep" ELSE "exit") ELSE "done"

\* Promotion that takes the newest request of the queue.
promote_lifo(s, p) ==
    LET n == Len(s.request_queue)
        r == s.request_queue[n] IN
    [lock_release(s, p) EXCEPT !.request_queue = SubSeq(@, 1, n - 1),
                               !.promo_log = Append(@, r),
                               !.active_count = @ + 1,
                               !.pc = [@ EXCEPT ![r] = "ready", ![p] = end_pc(p)]]

\* Promotion that launches the head of the queue and leaves it in the queue.
promote_keeping(s, p) ==
    LET r == Head(s.request_queue) IN
    [lock_release(s, p) EXCEPT !.promo_log = Append(@, r),
                               !.active_count = @ + 1,
                               !.pc = [@ EXCEPT ![r] = "ready", ![p] = end_pc(p)]]

\* Promotion that takes the head of the queue and gives it no task.
promote_dropping(s, p) ==
    LET r == Head(s.request_queue) IN
    [lock_release(s, p) EXCEPT !.request_queue = Tail(@),
                               !.promo_log = Append(@, r),
                               !.pc = [@ EXCEPT ![p] = end_pc(p)]]

\* _process_next_queued, lines 100-106, with _lock held: the head of the queue is
\* dequeued, counted, given an execution task, and the lock is released.
promote(s, p) ==
    LET r == Head(s.request_queue) IN
    [lock_release(s, p) EXCEPT !.request_queue = Tail(@),
                               !.promo_log = Append(@, r),
                               !.active_count = @ + 1,
                               !.pc = [@ EXCEPT ![r] = "ready", ![p] = end_pc(p)]]

\* Promotion that looks at the queue alone, not at the free slots.
promo_section_unchecked(s, p) ==
    IF size(s.request_queue) > 0
    THEN IF wait_for_suspends THEN [s EXCEPT !.pc[p] = "promo_get"]
         ELSE promote(s, p)
    ELSE [lock_release(s, p) EXCEPT !.pc[p] = end_pc(p)]

\* _process_next_queued, line 98, with _lock held.
promo_section(s, p) ==
    IF s.active_count < max_concurrent /\ size(s.request_queue) > 0
    THEN IF wait_for_suspends THEN [s EXCEPT !.pc[p] = "promo_get"]
         ELSE promote(s, p)
    ELSE [lock_release(s, p) EXCEPT !.pc[p] = end_pc(p)]

\* A completion that ends without looking at the queue.
process_next_queued_idle(s, p) == [s EXCEPT !.pc[p] = end_pc(p)]

process_next_queued(s, p) ==
    IF lock_free(s) THEN promo_section(lock_take(s, p), p)
    ELSE lock_wait(s, p, "promo_wait")

\* A completion that forgets to give its slot back.
dec_section_leaking(s, r) == lock_release(s, r)

\* A completion that gives back two slots.
dec_section_twice(s, r) == [lock_release(s, r) EXCEPT !.active_count = @ - 2]

\* _process_with_tracking, lines 90-91, with _lock held.
dec_section(s, r) == [lock_release(s, r) EXCEPT !.active_count = @ - 1]

\* A task that ends without running its finally block.
finish_abandoned(s, r) == [s EXCEPT !.pc[r] = "done"]

\* The finally block of _process_with_tracking.
finish(s, r) ==
    IF lock_free(s) THEN process_next_queued(dec_section(lock_take(s, r), r), r)
    ELSE lock_wait(s, r, "dec_wait")

\* run_in_executor on a pool that takes the call whatever its state.
run_engine_accepting(s, r, kind) ==
    [s EXCEPT !.in_engine = @ \cup {[who |-> r, kind |-> kind]},
              !.pc[r] = "engine"]

\* run_in_executor under _llm_lock: a pool that was shut down refuses the call
\* with a RuntimeError, which leaves the `async with` and becomes fail(error)
\* like any error of the engine call.
run_engine(s, r, kind) ==
    IF shutdown THEN finish(fail(llm_release(s, r), r, EngineError), r)
    ELSE [s EXCEPT !.in_engine = @ \cup {[who |-> r, kind |-> kind]},
                   !.pc[r] = "engine"]

\* _process_request that looks at the backend only once it holds _llm_lock.
process_request_locking(s, r, kind) ==
    IF ~llm_free(s) THEN llm_wait(s, r)
    ELSE IF ~loaded THEN finish(fail(s, r, NotLoaded), r)
    ELSE run_engine(llm_take(s, r), r, kind)

\* _process_request up to its first suspension.
process_request(s, r, kind) ==
    IF ~loaded THEN finish(fail(s, r, NotLoaded), r)
    ELSE IF llm_free(s) THEN run_engine(llm_take(s, r), r, kind)
    ELSE llm_wait(s, r)

\* benchmark, lines 279-291: one run_in_executor call of its loops, _llm_lock
\* held; a pool that was shut down refuses it and the error leaves benchmark.
bench_run(s) ==
    IF shutdown
    THEN [llm_release(s, BenchCaller) EXCEPT !.pc[BenchCaller] = "idle"]
    ELSE [s EXCEPT !.in_engine = @ \cup {[who |-> BenchCaller, kind |-> "bench"]},
                   !.pc[BenchCaller] = "engine"]

\* benchmark that looks at the backend only inside `async with self._llm_lock`.
bench_refuse_locking(s) ==
    IF llm_free(s) THEN [s EXCEPT !.pc[BenchCaller] = "raised"]
    ELSE llm_wait(s, BenchCaller)

\* benchmark, lines 255-256: without a loaded backend it raises at once.
bench_refuse(s) == [s EXCEPT !.pc[BenchCaller] = "raised"]

leave_engine(s, p) == [s EXCEPT !.in_engine = {c \in @ : c.who # p}]

Kinds == {"stream", "sync"}

\* The mode of the engine call r is in.
kind_of(r) == (CHOOSE c \in in_engine : c.who = r).kind

\* A loop on which the task may wake before the deliveries of its thread.
deliveries_run_unordered(s, r) == TRUE

\* The loop runs its callbacks in the order they were scheduled, and the worker
\* thread schedules the delivery of each increment (run_coroutine_threadsafe)
\* before the executor schedules the resolution of the future the task awaits:
\* the task wakes from run_in_executor only after every delivery of its thread.
deliveries_run(s, r) == \A i \in 1..Len(s.loop_calls) : s.loop_calls[i].who # r

\* LLMManager.get_token_count: int(len(text.split()) * 1.3).
get_token_count(words) == (words * 13) \div 10

\* Stats that count the words of the prompt as the completion.
streaming_stats_of_prompt(words, tokens) ==
    [prompt_tokens |-> get_token_count(words),
     completion_tokens |-> get_token_count(words),
     total_tokens |-> get_token_count(words) + get_token_count(words)]

\* The stats of a streaming request, lines 192-199: the prompt's estimate, the
\* number of increments, and their sum.
streaming_stats(words, tokens) ==
    [prompt_tokens |-> get_token_count(words),
     completion_tokens |-> Len(tokens),
     total_tokens |-> get_token_count(words) + Len(tokens)]

\* Stats whose total counts the completion alone.
metrics_completion_only(prompt_count, eval_count) ==
    [prompt_tokens |-> prompt_count,
     completion_tokens |-> eval_count,
     total_tokens |-> eval_count]

\* The counts in the result of generate_with_metrics, lines 143-145, from the
\* counts of the backend's response (or of the words, where it reports none).
metrics(prompt_count, eval_count) ==
    [prompt_tokens |-> prompt_count,
     completion_tokens |-> eval_count,
     total_tokens |-> prompt_count + eval_count]

\* _process_streaming whose last step raises once complete has been called, so
\* that _process_request calls fail as well.
process_streaming_raising(s, r, words) ==
    fail(complete(s, r, streaming_stats(words, s.produced[r])), r, EngineError)

\* _process_streaming after the engine call, for a prompt of that many words.
process_streaming(s, r, words) ==
    complete(s, r, streaming_stats(words, s.produced[r]))

\* _process_sync that delivers the text in two halves.
process_sync_halved(s, r, result) ==
    complete(put_token(put_token([s EXCEPT !.produced[r] = <<1, 2>>], r, 1), r, 2),
             r, [prompt_tokens |-> result.prompt_tokens,
                 completion_tokens |-> result.completion_tokens,
                 total_tokens |-> result.total_tokens])

\* _process_sync after the engine call: the text goes out as one increment, and
\* the stats are the three counts of the result, copied.
process_sync(s, r, result) ==
    complete(put_token([s EXCEPT !.produced[r] = <<1>>], r, 1), r,
             [prompt_tokens |-> result.prompt_tokens,
              completion_tokens |-> result.completion_tokens,
              total_tokens |-> result.total_tokens])

(***************************************************************************)
(* InferenceRequest, the consumer's side                                   *)
(***************************************************************************)
\* token_stream that stops at the marker whatever the terminal state.
token_stream_silent(s, r) ==
    LET item == Head(s.token_queue[r])
        s1 == [s EXCEPT !.token_queue[r] = Tail(@)] IN
    IF item = Sentinel
    THEN [s1 EXCEPT !.streams[r].pc = "ended"]
    ELSE [s1 EXCEPT !.streams[r].yielded = Append(@, item)]

\* One turn of token_stream's loop on an item taken from _token_queue.
token_stream(s, r) ==
    LET item == Head(s.token_queue[r])
        s1 == [s EXCEPT !.token_queue[r] = Tail(@)] IN
    IF item = Sentinel
    THEN IF s1.error[r] # "none"
         THEN [s1 EXCEPT !.streams[r].pc = "raised",
                         !.streams[r].raised = s1.error[r]]
         ELSE [s1 EXCEPT !.streams[r].pc = "ended"]
    ELSE [s1 EXCEPT !.streams[r].yielded = Append(@, item)]

\* get_stats that returns the default stats.
get_stats_default(s, r) ==
    [s EXCEPT !.stats_calls[r].pc = "returned", !.stats_calls[r].result = <<>>]

\* get_stats once _done is set.
get_stats(s, r) ==
    [s EXCEPT !.stats_calls[r].pc = "returned",
              !.stats_calls[r].result = s.stats[r]]

(***************************************************************************)
(* The benchmark's computations.  A measured value (milliseconds, tokens,  *)
(* tokens per second) is a float with two decimals: the model holds it in  *)
(* hundredths, as an integer.                                              *)
(***************************************************************************)
Hundredths(n) == n * 100

Min(a, b) == IF a < b THEN a ELSE b
Max(a, b) == IF a > b THEN a ELSE b

\* A budget capped by the budget asked for alone, without the floor.
recommend_max_tokens_unfloored(requested_max_tokens, completion_tokens_per_second) ==
    LET cap == requested_max_tokens IN
    IF completion_tokens_per_second < Hundredths(4) THEN Min(cap, 64)
    ELSE IF completion_tokens_per_second < Hundredths(8) THEN Min(cap, 96)
    ELSE IF completion_tokens_per_second < Hundredths(12) THEN Min(cap, 128)
    ELSE Min(cap, 160)

\* A table whose second threshold is compared the wrong way round.
recommend_max_tokens_swapped(requested_max_tokens, completion_tokens_per_second) ==
    LET cap == Max(32, requested_max_tokens) IN
    IF completion_tokens_per_second < Hundredths(4) THEN Min(cap, 64)
    ELSE IF completion_tokens_per_second > Hundredths(8) THEN Min(cap, 96)
    ELSE IF completion_tokens_per_second < Hundredths(12) THEN Min(cap, 128)
    ELSE Min(cap, 160)

\* A budget whose floor is 16.
recommend_max_tokens_low_floor(requested_max_tokens, completion_tokens_per_second) ==
    LET cap == Max(16, requested_max_tokens) IN
    IF completion_tokens_per_second < Hundredths(4) THEN Min(cap, 64)
    ELSE IF completion_tokens_per_second < Hundredths(8) THEN Min(cap, 96)
    ELSE IF completion_tokens_per_second < Hundredths(12) THEN Min(cap, 128)
    ELSE Min(cap, 160)

\* InferenceService._recommend_max_tokens.
recommend_max_tokens(requested_max_tokens, completion_tokens_per_second) ==
    LET cap == Max(32, requested_max_tokens) IN
    IF completion_tokens_per_second < Hundredths(4) THEN Min(cap, 64)
    ELSE IF completion_tokens_per_second < Hundredths(8) THEN Min(cap, 96)
    ELSE IF completion_tokens_per_second < Hundredths(12) THEN Min(cap, 128)
    ELSE Min(cap, 160)

\* Settings.n_ctx, the configured context size, and the max_tokens of a
\* benchmark that names none.
DefaultCtx == 2048
DefaultMaxTokens == 160

Range(seq) == {seq[i] : i \in 1..Len(seq)}

RECURSIVE Sum(_)
Sum(seq) == IF seq = <<>> THEN 0 ELSE Head(seq) + Sum(Tail(seq))

\* benchmark, line 260: a list that is absent or empty is replaced by the two
\* default candidates.
candidates(context_sizes, base_ctx) ==
    IF context_sizes # <<>> THEN context_sizes
    ELSE <<Max(512, Min(base_ctx, 1024)), base_ctx>>

\* A validation that keeps a size that was seen before.
RECURSIVE keep_valid_repeating(_, _, _)
keep_valid_repeating(cands, seen, valid) ==
    IF cands = <<>> THEN valid
    ELSE LET ctx == Head(cands) IN
         IF ctx < 256 \/ ctx > 8192
         THEN keep_valid_repeating(Tail(cands), seen, valid)
         ELSE keep_valid_repeating(Tail(cands), seen \cup {ctx},
                                   Append(valid, ctx))

\* benchmark, lines 263-269: the loop over the candidates.
RECURSIVE keep_valid(_, _, _)
keep_valid(cands, seen, valid) ==
    IF cands = <<>> THEN valid
    ELSE LET ctx == Head(cands) IN
         IF ctx < 256 \/ ctx > 8192 \/ ctx \in seen
         THEN keep_valid(Tail(cands), seen, valid)
         ELSE keep_valid(Tail(cands), seen \cup {ctx}, Append(valid, ctx))

\* A benchmark that falls back to the smaller of the default candidates.
valid_contexts_small(context_sizes, base_ctx) ==
    LET valid == keep_valid(candidates(context_sizes, base_ctx), {}, <<>>) IN
    IF valid = <<>> THEN <<Max(512, Min(base_ctx, 1024))>> ELSE valid

\* benchmark, lines 258-272: the context sizes to measure.
valid_contexts(context_sizes, base_ctx) ==
    LET valid == keep_valid(candidates(context_sizes, base_ctx), {}, <<>>) IN
    IF valid = <<>> THEN <<base_ctx>> ELSE valid

\* A mean over one run too many.
mean_round2_off_by_one(values) ==
    LET n == Len(values) + 1 IN
    (2 * Hundredths(Sum(values)) + n) \div (2 * n)

\* round(mean(values), 2), in hundredths, of whole numbers: the nearest
\* hundredth (of up to six whole numbers no mean lies half way between two).
mean_round2(values) ==
    LET n == Len(values) IN
    (2 * Hundredths(Sum(values)) + n) \div (2 * n)

\* The field of every run's result, in the order of the runs.
field(run_results, name) ==
    [i \in 1..Len(run_results) |-> run_results[i][name]]

\* The values of the runs that reported a time to first token.
reported(run_results) ==
    LET RECURSIVE collect(_)
        collect(rs) ==
            IF rs = <<>> THEN <<>>
            ELSE Head(rs).time_to_first_token_ms \o collect(Tail(rs))
    IN collect(run_results)

\* benchmark, lines 294-316: the profile of one context size.  An optional
\* value is a sequence, empty for None.
profile(ctx, runs, run_results) ==
    [context_size |-> ctx,
     runs |-> runs,
     avg_latency_ms |-> mean_round2(field(run_results, "latency_ms")),
     avg_ttft_ms |->
         IF reported(run_results) # <<>>
         THEN <<mean_round2(reported(run_results))>>
         ELSE <<>>,
     avg_completion_tokens |->
         mean_round2(field(run_results, "completion_tokens")),
     avg_completion_tokens_per_second |->
         mean_round2(field(run_results, "completion_tokens_per_second"))]

\* The key of max, lines 321-324, compared as Python compares tuples.
key_greater(p, q) ==
    \/ p.avg_completion_tokens_per_second > q.avg_completion_tokens_per_second
    \/ /\ p.avg_completion_tokens_per_second = q.avg_completion_tokens_per_second
       /\ -p.avg_latency_ms > -q.avg_latency_ms

\* A choice by latency first.
best_profile_quickest(profiles) ==
    LET RECURSIVE best(_, _)
        best(ps, b) ==
            IF ps = <<>> THEN b
            ELSE IF Head(ps).avg_latency_ms < b.avg_latency_ms
                 THEN best(Tail(ps), Head(ps))
                 ELSE best(Tail(ps), b)
    IN best(Tail(profiles), Head(profiles))

\* benchmark, lines 319-325: max keeps the first of the profiles with the
\* greatest key.
best_profile(profiles) ==
    LET RECURSIVE best(_, _)
        best(ps, b) ==
            IF ps = <<>> THEN b
            ELSE IF key_greater(Head(ps), b) THEN best(Tail(ps), Head(ps))
                 ELSE best(Tail(ps), b)
    IN best(Tail(profiles), Head(profiles))

\* benchmark, lines 326-351: what it returns (the fixed texts left out).
bench_result(profiles, runs, max_tokens_asked) ==
    LET b == best_profile(profiles)
        m == recommend_max_tokens(max_tokens_asked,
                                  b.avg_completion_tokens_per_second) IN
    [runs |-> runs,
     profiles |-> profiles,
     recommended |-> [N_CTX |-> b.context_size, MAX_TOKENS |-> m,
                      max_tokens |-> m]]

(***************************************************************************)
(* Initial state: the service as main.py's lifespan constructs it.         *)
(***************************************************************************)
Constructed ==
    /\ running = FALSE
    /\ shutdown = FALSE
    /\ active_count = 0
    /\ request_queue = <<>>
    /\ lock_holder = {}
    /\ lock_waiters = <<>>
    /\ llm_holder = {}
    /\ llm_waiters = <<>>
    /\ in_engine = {}
    /\ pc = [p \in Procs |-> IF p = Worker THEN "init"
                             ELSE IF p = BenchCaller THEN "idle" ELSE "new"]
    /\ submit_result = [r \in Requests |-> "none"]
    /\ http_status = [r \in Requests |-> 0]
    /\ done = [r \in Requests |-> FALSE]
    /\ error = [r \in Requests |-> "none"]
    /\ stats = <<>>
    /\ token_queue = <<>>
    /\ loop_calls = <<>>
    /\ produced = <<>>
    /\ put_log = <<>>
    /\ streams = <<>>
    /\ stats_calls = <<>>
    /\ enq_log = <<>>
    /\ promo_log = <<>>

\* No call of benchmark is followed through its computation: the benchmark
\* takes part with its engine calls alone.
NoBench == [pc |-> "off"]

\* ThreadPoolExecutor(max_workers=max_concurrent) refuses max_concurrent < 1;
\* load_model may have failed at startup, and the service starts all the same.
\* The clients stream (the default of InferenceRequest.stream) and the backend
\* answers without an increment.
Init ==
    /\ max_concurrent \in 1..MaxConcurrent
    /\ maxsize \in 0..MaxQueueSize
    /\ wait_for_suspends \in BOOLEAN
    /\ clients = NumClients
    /\ modes = {"stream"}
    /\ max_tokens = 0
    /\ counts = {1}
    /\ loaded \in BOOLEAN
    /\ Constructed
    /\ bench = NoBench

env == <<loaded, running, shutdown>>

(***************************************************************************)
(* Actions                                                                 *)
(***************************************************************************)
\* POST /generate for request r; requests are numbered in the order of arrival.
Generate(r) ==
    /\ pc[r] = "new"
    /\ r <= clients
    /\ \A x \in Requests : x < r => pc[x] # "new"
    /\ IF ~loaded
       THEN Becomes([State EXCEPT !.pc[r] = "refused", !.http_status[r] = 503])
       ELSE Becomes(submit(new_request(State, r), r))
    /\ UNCHANGED <<config, env, bench>>

\* A waiter of _lock woken by release runs: it takes the lock and goes on.
Woken(p) ==
    /\ lock_holder = {}
    /\ lock_waiters # <<>>
    /\ p = Head(lock_waiters)

granted(p) == [State EXCEPT !.lock_waiters = Tail(@), !.lock_holder = {p}]

SubmitResume(r) ==
    /\ pc[r] = "submit_wait"
    /\ Woken(r)
    /\ Becomes(submit_section(granted(r), r))
    /\ UNCHANGED <<config, env, bench>>

DecResume(r) ==
    /\ pc[r] = "dec_wait"
    /\ Woken(r)
    /\ Becomes(process_next_queued(dec_section(granted(r), r), r))
    /\ UNCHANGED <<config, env, bench>>

PromoResume(p) ==
    /\ pc[p] = "promo_wait"
    /\ Woken(p)
    /\ Becomes(promo_section(granted(p), p))
    /\ UNCHANGED <<config, env, bench>>

\* wait_for(queue.get()) returns to the promoter, which still holds _lock.
PromoGet(p) ==
    /\ pc[p] = "promo_get"
    /\ Becomes(promote(State, p))
    /\ UNCHANGED <<config, env, bench>>

\* The first step of the task created for _process_with_tracking(r).
TaskStart(r) ==
    /\ pc[r] = "ready"
    /\ \E kind \in modes : Becomes(process_request(State, r, kind))
    /\ UNCHANGED <<config, env, bench>>

LlmWoken(p) ==
    /\ llm_holder = {}
    /\ llm_waiters # <<>>
    /\ p = Head(llm_waiters)

llm_granted(p) == [State EXCEPT !.llm_waiters = Tail(@), !.llm_holder = {p}]

LlmResume(r) ==
    /\ pc[r] = "llm_wait"
    /\ LlmWoken(r)
    /\ \E kind \in modes : Becomes(run_engine(llm_granted(r), r, kind))
    /\ UNCHANGED <<config, env, bench>>

\* The engine call of r returned: the lock is left, the request completed.
EngineReturn(r) ==
    /\ pc[r] = "engine"
    /\ deliveries_run(State, r)
    /\ LET s == llm_release(leave_engine(State, r), r) IN
       IF kind_of(r) = "stream"
       THEN \E words \in counts :
               Becomes(finish(process_streaming(s, r, words), r))
       ELSE \E prompt_count \in counts, eval_count \in counts :
               Becomes(finish(process_sync(s, r, metrics(prompt_count,
                                                        eval_count)), r))
    /\ UNCHANGED <<config, env, bench>>

\* The engine call of r raised: the lock is left, _process_request calls fail.
EngineRaise(r) ==
    /\ pc[r] = "engine"
    /\ deliveries_run(State, r)
    /\ Becomes(finish(fail(llm_release(leave_engine(State, r), r), r,
                           EngineError), r))
    /\ UNCHANGED <<config, env, bench>>

\* The worker thread of a streaming call takes one more increment from
\* generate_stream and schedules its delivery on the loop.
Emit(r) ==
    /\ pc[r] = "engine"
    /\ kind_of(r) = "stream"
    /\ Len(produced[r]) < max_tokens
    /\ LET token == Len(produced[r]) + 1 IN
       Becomes([State EXCEPT !.produced[r] = Append(@, token),
                             !.loop_calls = Append(@, [who |-> r,
                                                       token |-> token])])
    /\ UNCHANGED <<config, env, bench>>

\* The loop runs the oldest delivery: put_token.
Deliver ==
    /\ loop_calls # <<>>
    /\ LET c == Head(loop_calls) IN
       Becomes(put_token([State EXCEPT !.loop_calls = Tail(@)], c.who, c.token))
    /\ UNCHANGED <<config, env, bench>>

\* Has submit accepted r (the route hands the request to a consumer)?
Accepted(r) == submit_result[r] \in {"immediate", "queued"}

\* A consumer starts iterating token_stream().
StreamCall(r) ==
    /\ Accepted(r)
    /\ r \notin DOMAIN streams
    /\ Becomes([State EXCEPT !.streams =
                   @ @@ (r :> [pc |-> "open", yielded |-> <<>>,
                               raised |-> "none"])])
    /\ UNCHANGED <<config, env, bench>>

\* _token_queue.get() hands the consumer the next item.
StreamNext(r) ==
    /\ r \in DOMAIN streams
    /\ streams[r].pc = "open"
    /\ token_queue[r] # <<>>
    /\ Becomes(token_stream(State, r))
    /\ UNCHANGED <<config, env, bench>>

\* The consumer gives up: the client of a stream disconnects and its generator
\* is cancelled, or the wait_for around wait_for_completion times out and
\* cancels it.  Nothing of the request or of the service is touched.
StreamCancel(r) ==
    /\ r \in DOMAIN streams
    /\ streams[r].pc = "open"
    /\ Becomes([State EXCEPT !.streams[r].pc = "cancelled"])
    /\ UNCHANGED <<config, env, bench>>

\* A caller awaits get_stats(): _done.wait() returns at once when _done is set,
\* and suspends the caller when it is not.
StatsCall(r) ==
    /\ Accepted(r)
    /\ r \notin DOMAIN stats_calls
    /\ LET s == [State EXCEPT !.stats_calls =
                   @ @@ (r :> [pc |-> "waiting", waited |-> ~done[r],
                               result |-> <<>>])] IN
       IF done[r] THEN Becomes(get_stats(s, r)) ELSE Becomes(s)
    /\ UNCHANGED <<config, env, bench>>

\* _done.set() woke the caller of get_stats().
StatsWake(r) ==
    /\ r \in DOMAIN stats_calls
    /\ stats_calls[r].pc = "waiting"
    /\ done[r]
    /\ Becomes(get_stats(State, r))
    /\ UNCHANGED <<config, env, bench>>

\* InferenceService.benchmark up to its first engine call (every context size
\* is measured `runs` times, and BenchmarkRequest requires runs >= 1).
BenchCall ==
    /\ pc[BenchCaller] = "idle"
    /\ loaded
    /\ IF llm_free(State) THEN Becomes(bench_run(llm_take(State, BenchCaller)))
       ELSE Becomes(llm_wait(State, BenchCaller))
    /\ UNCHANGED <<config, env, bench>>

BenchResume ==
    /\ pc[BenchCaller] = "llm_wait"
    /\ LlmWoken(BenchCaller)
    /\ Becomes(bench_run(llm_granted(BenchCaller)))
    /\ UNCHANGED <<config, env, bench>>

\* An engine call of the benchmark returned: either its loops go on with the
\* next call, or that was the last one and the lock is left.
BenchReturn ==
    /\ pc[BenchCaller] = "engine"
    /\ LET s == leave_engine(State, BenchCaller) IN
       \E more \in BOOLEAN :
          IF more THEN Becomes(bench_run(s))
          ELSE Becomes([llm_release(s, BenchCaller) EXCEPT !.pc[BenchCaller] = "idle"])
    /\ UNCHANGED <<config, env, bench>>

\* An engine call of the benchmark raised: the error leaves the `async with`.
BenchRaise ==
    /\ pc[BenchCaller] = "engine"
    /\ Becomes([llm_release(leave_engine(State, BenchCaller), BenchCaller)
                  EXCEPT !.pc[BenchCaller] = "idle"])
    /\ UNCHANGED <<config, env, bench>>

\* InferenceService.benchmark called while the backend is not loaded.  (The
\* /benchmark route answers 503 before it calls the service in that state, so
\* the call comes from another caller of the service.)
BenchRefused ==
    /\ pc[BenchCaller] = "idle"
    /\ ~loaded
    /\ Becomes(bench_refuse(State))
    /\ UNCHANGED <<config, env, bench>>

\* start_queue_worker up to its first sleep.
WorkerStart ==
    /\ pc[Worker] = "init"
    /\ running' = TRUE
    /\ pc' = [pc EXCEPT ![Worker] = "sleep"]
    /\ UNCHANGED <<config, bench, loaded, shutdown, active_count, request_queue,
                   lock_holder, lock_waiters, llm_holder, llm_waiters, in_engine,
                   submit_result, http_status, done, error, enq_log,
                   promo_log, lifecycle>>

\* The worker wakes from asyncio.sleep(0.1).
Tick ==
    /\ pc[Worker] = "sleep"
    /\ IF size(request_queue) > 0
       THEN Becomes(process_next_queued(State, Worker))
       ELSE Becomes([State EXCEPT !.pc[Worker] = end_pc(Worker)])
    /\ UNCHANGED <<config, env, bench>>

\* InferenceService.stop.
Stop ==
    /\ ~shutdown
    /\ running' = FALSE
    /\ shutdown' = TRUE
    /\ UNCHANGED <<config, bench, loaded, active_count, request_queue,
                   lock_holder,
                   lock_waiters, llm_holder, llm_waiters, in_engine,
                   pc, submit_result, http_status, done, error, enq_log, promo_log,
                   lifecycle>>

\* LLMManager.unload_model, which main.py calls after stop.
Unload ==
    /\ shutdown
    /\ loaded
    /\ loaded' = FALSE
    /\ UNCHANGED <<config, bench, running, shutdown, active_count, request_queue,
                   lock_holder, lock_waiters, llm_holder, llm_waiters, in_engine,
                   pc, submit_result, http_status, done, error,
                   enq_log, promo_log, lifecycle>>

\* The steps of the requests' tasks and of the worker that start at a call, a
\* task's creation, the engine or a timer.
Serving ==
    \/ \E r \in Requests : Generate(r)
    \/ \E r \in Requests : TaskStart(r)
    \/ \E r \in Requests : LlmResume(r)
    \/ \E r \in Requests : EngineReturn(r)
    \/ \E r \in Requests : EngineRaise(r)
    \/ WorkerStart
    \/ Tick

\* The steps that start where a task had to wait for _lock or for the queue.
Contended ==
    \/ \E r \in Requests : SubmitResume(r)
    \/ \E r \in Requests : DecResume(r)
    \/ \E p \in Requests \cup {Worker} : PromoResume(p)
    \/ \E p \in Requests \cup {Worker} : PromoGet(p)

\* The steps of the requests' tasks and of the worker.
Admission == Serving \/ Contended

\* The benchmark.
Benchmark ==
    \/ BenchCall
    \/ BenchResume
    \/ BenchReturn
    \/ BenchRaise

Next ==
    \/ Admission
    \/ BenchCall
    \/ BenchResume
    \/ BenchReturn
    \/ BenchRaise
    \/ Stop
    \/ Unload

Spec == Init /\ [][Next]_vars

\* Admission alone, under the largest configuration, on Python <= 3.11, with
\* every request sent.
InitRace ==
    /\ max_concurrent = MaxConcurrent
    /\ maxsize = MaxQueueSize
    /\ wait_for_suspends = TRUE
    /\ clients = NumRequests
    /\ modes = {"stream"}
    /\ max_tokens = 0
    /\ counts = {1}
    /\ loaded = TRUE
    /\ Constructed
    /\ bench = NoBench

SpecRace == InitRace /\ [][Admission]_vars

\* The requests with their producers and consumers, next to a benchmark and
\* to the shutdown: both modes, a backend that produces increments, and a slot
\* for every request, so that nothing is queued and _lock is never waited for.
InitStream ==
    /\ max_concurrent = MaxConcurrent
    /\ maxsize = MaxQueueSize
    /\ wait_for_suspends = FALSE
    /\ clients = NumStreams
    /\ modes = Kinds
    /\ max_tokens = MaxTokens
    /\ counts = {1}
    /\ loaded = TRUE
    /\ Constructed
    /\ bench = NoBench

Lifecycle ==
    \/ \E r \in Requests : Emit(r)
    \/ Deliver
    \/ \E r \in Requests : StreamCall(r)
    \/ \E r \in Requests : StreamNext(r)
    \/ \E r \in Requests : StatsCall(r)
    \/ \E r \in Requests : StatsWake(r)

SpecStream ==
    InitStream /\ [][Serving \/ Benchmark \/ Lifecycle \/ Stop \/ Unload]_vars

\* The requests with their producers and the callers of get_stats, next to a
\* benchmark, for prompts and replies of every size up to MaxCount.
InitStats ==
    /\ max_concurrent = MaxConcurrent
    /\ maxsize = MaxQueueSize
    /\ wait_for_suspends = FALSE
    /\ clients = NumStreams
    /\ modes = Kinds
    /\ max_tokens = MaxTokens
    /\ counts = 0..MaxCount
    /\ loaded = TRUE
    /\ Constructed
    /\ bench = NoBench

Reporting ==
    \/ \E r \in Requests : Emit(r)
    \/ Deliver
    \/ \E r \in Requests : StatsCall(r)
    \/ \E r \in Requests : StatsWake(r)

SpecStats == InitStats /\ [][Serving \/ Benchmark \/ Reporting]_vars

\* Streaming requests alone, with their producers and the consumers of their
\* streams, for prompts of every size up to MaxCount, next to a benchmark and
\* to the shutdown.
InitCount ==
    /\ max_concurrent = MaxConcurrent
    /\ maxsize = MaxQueueSize
    /\ wait_for_suspends = FALSE
    /\ clients = NumStreams
    /\ modes = {"stream"}
    /\ max_tokens = MaxTokens
    /\ counts = 0..MaxCount
    /\ loaded = TRUE
    /\ Constructed
    /\ bench = NoBench

Consuming ==
    \/ \E r \in Requests : Emit(r)
    \/ Deliver
    \/ \E r \in Requests : StreamCall(r)
    \/ \E r \in Requests : StreamNext(r)

SpecCount ==
    InitCount /\ [][Serving \/ Benchmark \/ Consuming \/ Stop \/ Unload]_vars

\* Synchronous requests alone, one for each slot, with their consumers, for
\* results of MaxCount tokens, next to a benchmark and to the shutdown.  No
\* worker thread delivers anything: the task itself puts the text.
InitSync ==
    /\ max_concurrent = MaxConcurrent
    /\ maxsize = MaxQueueSize
    /\ wait_for_suspends = FALSE
    /\ clients = MaxConcurrent
    /\ modes = {"sync"}
    /\ max_tokens = MaxTokens
    /\ counts = {MaxCount}
    /\ loaded = TRUE
    /\ Constructed
    /\ bench = NoBench

Reading ==
    \/ \E r \in Requests : StreamCall(r)
    \/ \E r \in Requests : StreamNext(r)

SpecSync ==
    InitSync /\ [][Serving \/ Benchmark \/ Reading \/ Stop \/ Unload]_vars

\* The service with its clients, a benchmark caller that also calls while the
\* backend is not loaded, and the shutdown; on a Python whose wait_for does not
\* suspend, so that _lock is never waited for.
InitRefuse ==
    /\ max_concurrent \in 1..MaxConcurrent
    /\ maxsize = MaxQueueSize
    /\ wait_for_suspends = FALSE
    /\ clients = NumClients
    /\ modes = {"stream"}
    /\ max_tokens = 0
    /\ counts = {1}
    /\ loaded \in BOOLEAN
    /\ Constructed
    /\ bench = NoBench

SpecRefuse ==
    InitRefuse /\ [][Serving \/ Benchmark \/ BenchRefused \/ Stop \/ Unload]_vars

\* The context sizes the lists of a run of SpecBench are made of: the ends of
\* the bound [256, 8192] and their neighbours outside.
Ctxs == {255, 256, 8192, 8193}

\* The lists of context sizes a benchmark is given; the empty list stands for
\* a list that is absent (None) as well, which line 260 treats alike.
ContextLists ==
    UNION {[1..n -> Ctxs] : n \in 0..MaxCandidates}

\* What the backend's calls return in a run of SpecBench (the four fields of
\* generate_with_metrics' result that benchmark reads), in milliseconds,
\* tokens and tokens per second: a quick slow-talking call that reports no
\* time to first token, a slow fast-talking one, and a slow slow-talking one.
Measurements ==
    {[latency_ms |-> 300, time_to_first_token_ms |-> <<>>,
      completion_tokens |-> 20, completion_tokens_per_second |-> 10],
     [latency_ms |-> 500, time_to_first_token_ms |-> <<100>>,
      completion_tokens |-> 30, completion_tokens_per_second |-> 15],
     [latency_ms |-> 500, time_to_first_token_ms |-> <<40>>,
      completion_tokens |-> 20, completion_tokens_per_second |-> 10]}

\* A call of benchmark, followed through its computation, on a service that
\* serves nothing else.
InitBench ==
    /\ max_concurrent = MaxConcurrent
    /\ maxsize = MaxQueueSize
    /\ wait_for_suspends = FALSE
    /\ clients = 0
    /\ modes = {"stream"}
    /\ max_tokens = 0
    /\ counts = {1}
    /\ loaded = TRUE
    /\ Constructed
    /\ \E context_sizes \in ContextLists, runs \in 1..MaxRuns :
          bench = [pc |-> "called",
                   context_sizes |-> context_sizes,
                   runs |-> runs,
                   max_tokens |-> DefaultMaxTokens,
                   base_ctx |-> DefaultCtx,
                   valid_contexts |-> <<>>,
                   run_results |-> <<>>,
                   profiles |-> <<>>,
                   future |-> <<>>,
                   result |-> <<>>]

\* benchmark from its call to its first engine call, lines 255-291: the context
\* sizes are validated, the serialization lock (free on this service) is
\* taken, the first call goes to the executor.
BenchmarkCall ==
    /\ bench.pc = "called"
    /\ pc[BenchCaller] = "idle"
    /\ loaded
    /\ llm_free(State)
    /\ Becomes(bench_run(llm_take(State, BenchCaller)))
    /\ bench' = [bench EXCEPT
                    !.pc = "measuring",
                    !.valid_contexts =
                        valid_contexts(bench.context_sizes, bench.base_ctx)]
    /\ UNCHANGED <<config, env>>

\* The executor's thread finishes generate_with_metrics and sets the result of
\* the future benchmark awaits.
BenchmarkEngineDone ==
    /\ bench.pc = "measuring"
    /\ pc[BenchCaller] = "engine"
    /\ bench.future = <<>>
    /\ \E m \in Measurements : bench' = [bench EXCEPT !.future = <<m>>]
    /\ Becomes(leave_engine(State, BenchCaller))
    /\ UNCHANGED <<config, env>>

\* benchmark wakes with the result of an engine call, lines 292-351: the result
\* joins run_results; after the last run of a context size its profile is
\* appended; then the next call goes to the executor, or the lock is left and
\* benchmark returns.
BenchmarkResume ==
    /\ bench.pc = "measuring"
    /\ bench.future # <<>>
    /\ LET results == Append(bench.run_results, bench.future[1])
           ctx == bench.valid_contexts[Len(bench.profiles) + 1]
           profiles == Append(bench.profiles,
                              profile(ctx, bench.runs, results)) IN
       IF Len(results) < bench.runs
       THEN /\ bench' = [bench EXCEPT !.run_results = results,
                                      !.future = <<>>]
            /\ Becomes(bench_run(State))
       ELSE IF Len(profiles) < Len(bench.valid_contexts)
       THEN /\ bench' = [bench EXCEPT !.profiles = profiles,
                                      !.run_results = <<>>,
                                      !.future = <<>>]
            /\ Becomes(bench_run(State))
       ELSE /\ bench' = [bench EXCEPT
                            !.pc = "returned",
                            !.profiles = profiles,
                            !.run_results = results,
                            !.future = <<>>,
                            !.result = <<bench_result(profiles, bench.runs,
                                                      bench.max_tokens)>>]
            /\ Becomes([llm_release(State, BenchCaller)
                          EXCEPT !.pc[BenchCaller] = "idle"])
    /\ UNCHANGED <<config, env>>

SpecBench ==
    InitBench /\ [][BenchmarkCall \/ BenchmarkEngineDone \/ BenchmarkResume]_vars

\* The throughputs of a run of SpecBudget, in hundredths: the whole numbers up
\* to MaxRate with their neighbours one hundredth and one half away.
Rates ==
    {Hundredths(n) + d : n \in 0..MaxRate, d \in {0, 1, 50, 99}}

\* A call of _recommend_max_tokens, of any budget and throughput, on a service
\* at rest.
InitBudget ==
    /\ max_concurrent = MaxConcurrent
    /\ maxsize = MaxQueueSize
    /\ wait_for_suspends = FALSE
    /\ clients = 0
    /\ modes = {"stream"}
    /\ max_tokens = 0
    /\ counts = {1}
    /\ loaded = TRUE
    /\ Constructed
    /\ \E requested \in 1..MaxBudget, rate \in Rates :
          bench = [pc |-> "budget_call",
                   requested_max_tokens |-> requested,
                   completion_tokens_per_second |-> rate]

\* _recommend_max_tokens runs and returns.
RecommendMaxTokens ==
    /\ bench.pc = "budget_call"
    /\ bench' = [pc |-> "budget_done",
                 requested_max_tokens |-> bench.requested_max_tokens,
                 completion_tokens_per_second |->
                     bench.completion_tokens_per_second,
                 result |-> recommend_max_tokens(
                                bench.requested_max_tokens,
                                bench.completion_tokens_per_second)]
    /\ UNCHANGED <<config, env, active_count, request_queue, lock_holder,
                   lock_waiters, llm_holder, llm_waiters, in_engine, pc,
                   submit_result, http_status, done, error, enq_log, promo_log,
                   lifecycle>>

SpecBudget == InitBudget /\ [][RecommendMaxTokens]_vars

\* What scheduling guarantees: the event loop runs every task that is ready
\* (created, or woken by a lock release, by a timer or by the executor), and
\* every engine call returns or raises.
Fairness ==
    /\ \A r \in Requests :
         /\ WF_vars(SubmitResume(r))
         /\ WF_vars(DecResume(r))
         /\ WF_vars(TaskStart(r))
         /\ WF_vars(LlmResume(r))
         /\ WF_vars(EngineReturn(r) \/ EngineRaise(r))
    /\ \A p \in Requests \cup {Worker} :
         /\ WF_vars(PromoResume(p))
         /\ WF_vars(PromoGet(p))
    /\ WF_vars(WorkerStart)
    /\ WF_vars(Tick)

\* Admission under that scheduling.
SpecFair == Init /\ [][Admission]_vars /\ Fairness

\* The scheduling of the event loop alone: every task that is ready runs, and
\* an engine call may take for ever.
FairnessLoop ==
    /\ \A r \in Requests :
         /\ WF_vars(SubmitResume(r))
         /\ WF_vars(DecResume(r))
         /\ WF_vars(TaskStart(r))
         /\ WF_vars(LlmResume(r))
    /\ \A p \in Requests \cup {Worker} :
         /\ WF_vars(PromoResume(p))
         /\ WF_vars(PromoGet(p))
    /\ WF_vars(WorkerStart)
    /\ WF_vars(Tick)

\* Admission on a loop that runs its tasks, with engine calls of any length.
SpecLoop == Init /\ [][Admission]_vars /\ FairnessLoop

\* As many requests as there are modes (a streaming and a synchronous request
\* can meet, and with a single slot one queues behind the other), with their
\* producers and with consumers that may never start, stop reading or give up;
\* on a Python whose wait_for does not suspend, so that _lock is never waited
\* for.
InitAbandon ==
    /\ max_concurrent \in 1..MaxConcurrent
    /\ maxsize = MaxQueueSize
    /\ wait_for_suspends = FALSE
    /\ clients = Cardinality(Kinds)
    /\ modes = Kinds
    /\ max_tokens = MaxTokens
    /\ counts = {1}
    /\ loaded = TRUE
    /\ Constructed
    /\ bench = NoBench

Abandoning ==
    \/ \E r \in Requests : Emit(r)
    \/ Deliver
    \/ \E r \in Requests : StreamCall(r)
    \/ \E r \in Requests : StreamNext(r)
    \/ \E r \in Requests : StreamCancel(r)

\* The loop runs every task that is ready and every delivery scheduled on it,
\* and every engine call returns or raises; nothing makes a consumer read.
FairnessAbandon == Fairness /\ WF_vars(Deliver)

SpecAbandon == InitAbandon /\ [][Serving \/ Abandoning]_vars /\ FairnessAbandon

\* The steps of the requests' tasks alone: the worker task never runs.
Completions ==
    \/ \E r \in Requests : Generate(r)
    \/ \E r \in Requests : TaskStart(r)
    \/ \E r \in Requests : LlmResume(r)
    \/ \E r \in Requests : EngineReturn(r)
    \/ \E r \in Requests : EngineRaise(r)
    \/ Contended

\* The loop runs every task of a request that is ready, and every engine call
\* ends; nothing is said of the worker.
FairnessCompletions ==
    /\ \A r \in Requests :
         /\ WF_vars(SubmitResume(r))
         /\ WF_vars(DecResume(r))
         /\ WF_vars(TaskStart(r))
         /\ WF_vars(LlmResume(r))
         /\ WF_vars(EngineReturn(r) \/ EngineRaise(r))
         /\ WF_vars(PromoResume(r))
         /\ WF_vars(PromoGet(r))

\* The service without its background tick.
SpecNoTick == Init /\ [][Completions]_vars /\ FairnessCompletions

\* The requests' tasks and the worker next to stop(), with an engine whose
\* calls all return: a request fails only because its call was refused (or
\* because the backend never loaded, and then /generate takes no request).
Stopping ==
    \/ \E r \in Requests : Generate(r)
    \/ \E r \in Requests : TaskStart(r)
    \/ \E r \in Requests : LlmResume(r)
    \/ \E r \in Requests : EngineReturn(r)
    \/ WorkerStart
    \/ Tick
    \/ Contended
    \/ Stop

\* The loop runs every task that is ready and every engine call that was
\* dispatched returns, be the pool shut down or not.
FairnessStopping ==
    /\ \A r \in Requests :
         /\ WF_vars(SubmitResume(r))
         /\ WF_vars(DecResume(r))
         /\ WF_vars(TaskStart(r))
         /\ WF_vars(LlmResume(r))
         /\ WF_vars(EngineReturn(r))
    /\ \A p \in Requests \cup {Worker} :
         /\ WF_vars(PromoResume(p))
         /\ WF_vars(PromoGet(p))
    /\ WF_vars(WorkerStart)
    /\ WF_vars(Tick)

SpecStopping == Init /\ [][Stopping]_vars /\ FairnessStopping

(***************************************************************************)
(* Properties                                                              *)
(***************************************************************************)
\* Request r's submit runs its critical section in this step.
Decides(r) ==
    /\ pc[r] \in {"new", "submit_wait"}
    /\ pc'[r] \notin {"new", "submit_wait", "refused"}

\* No execution task is created in this step for a request other than r.
LaunchesOnly(r) ==
    \A x \in Requests \ {r} : pc'[x] = "ready" => pc[x] = "ready"

\* C1: in every reachable state 0 <= active_count <= max_concurrent, whatever
\* the interleaving of submits, completions and the two promotion paths.
ActiveCountInRange == 0 <= active_count /\ active_count <= max_concurrent

\* Every slot is taken again after a completion and a promotion.
ActiveCountWitness ==
    /\ active_count = max_concurrent
    /\ promo_log # <<>>
    /\ \E r \in Requests : pc[r] = "done"
    /\ \E r \in Requests : pc[r] = "queued"

\* C2: at most one engine call is in flight, be it of a streaming request, of a
\* synchronous one or of the benchmark, whatever active_count is.
OneEngineCall == Cardinality(in_engine) <= 1

\* A benchmark call is in the engine while two counted requests wait for it.
OneEngineCallWitness ==
    /\ \E c \in in_engine : c.kind = "bench"
    /\ Len(llm_waiters) >= 2
    /\ active_count >= 2

\* C3: submit returns Immediate exactly when active_count < max_concurrent; then
\* active_count rises by one and one task is launched, for this request.  Else,
\* the queue not being full, it returns Queued, the request goes to the tail of
\* the queue, active_count stays and no task is launched.
SubmitDecision ==
    [][\A r \in Requests : Decides(r) =>
         /\ (submit_result'[r] = "immediate") <=> (active_count < max_concurrent)
         /\ active_count < max_concurrent =>
              /\ active_count' = active_count + 1
              /\ pc'[r] = "ready"
              /\ LaunchesOnly(r)
              /\ request_queue' = request_queue
         /\ (active_count >= max_concurrent
               /\ ~(maxsize > 0 /\ Len(request_queue) >= maxsize)) =>
              /\ submit_result'[r] = "queued"
              /\ request_queue' = Append(request_queue, r)
              /\ active_count' = active_count
              /\ pc'[r] = "queued"
              /\ LaunchesOnly(r)]_vars

\* One request was admitted at once and a later one queued behind it.
SubmitDecisionWitness ==
    \E a, b \in Requests :
        /\ submit_result[a] = "immediate"
        /\ submit_result[b] = "queued"
        /\ pc[b] = "queued"
        /\ active_count = max_concurrent

\* C4: submit with every slot taken and the queue at capacity fails with the
\* busy error; the request gets neither a place in the queue nor a task nor a
\* terminal signal, then or later, and active_count and the queue stay.
SubmitBusy ==
    [][\A r \in Requests :
         /\ (Decides(r) /\ active_count = max_concurrent
               /\ maxsize > 0 /\ Len(request_queue) >= maxsize) =>
              /\ submit_result'[r] = "busy"
              /\ pc'[r] = "rejected"
              /\ active_count' = active_count
              /\ request_queue' = request_queue
              /\ LaunchesOnly(r)
         /\ submit_result[r] = "busy" =>
              /\ pc'[r] = "rejected"
              /\ submit_result'[r] = "busy"
              /\ ~done'[r]
              /\ \A i \in 1..Len(request_queue') : request_queue'[i] # r]_vars

\* A request was turned away and the work went on: a later promotion.
SubmitBusyWitness ==
    \E r \in Requests :
        /\ submit_result[r] = "busy"
        /\ promo_log # <<>>
        /\ \E x \in Requests : x < r /\ pc[x] = "done"

\* C5: a submission turned away for a full queue is answered with 429.
BusyAnswered429 ==
    \A r \in Requests : submit_result[r] = "busy" => http_status[r] = 429

\* Request r's submit calls RequestQueue.put in this step.
PutCalled(r) == Decides(r) /\ active_count >= max_concurrent

\* C6 as stated: the size of the queue never exceeds its configured capacity
\* (RequestQueue.maxsize).
QueueWithinMaxsize == Len(request_queue) <= maxsize

\* C6: the size of the queue never exceeds a configured capacity of one or more
\* (a capacity of 0 configures a queue without bound).
QueueWithinCapacity == maxsize >= 1 => Len(request_queue) <= maxsize

\* The queue is filled to its capacity again after puts and a get.
QueueWithinCapacityWitness ==
    /\ maxsize >= 1
    /\ Len(request_queue) = maxsize
    /\ promo_log # <<>>
    /\ Len(enq_log) > maxsize

\* C7 as stated: for every capacity c >= 0, put at size = c fails at once and
\* leaves the queue as it was, and put at size < c enqueues.
PutFailsAtMaxsize ==
    [][\A r \in Requests : PutCalled(r) =>
         /\ Len(request_queue) = maxsize =>
              /\ submit_result'[r] = "busy"
              /\ pc'[r] = "rejected"
              /\ request_queue' = request_queue
         /\ Len(request_queue) < maxsize =>
              request_queue' = Append(request_queue, r)]_vars

\* C7: for every capacity c >= 1, put at size = c fails at once, in the step of
\* the call, and leaves the queue as it was; put at size < c enqueues; with
\* capacity 0 put always enqueues.
PutFailsWhenFull ==
    [][\A r \in Requests : PutCalled(r) =>
         /\ (maxsize >= 1 /\ Len(request_queue) = maxsize) =>
              /\ submit_result'[r] = "busy"
              /\ pc'[r] = "rejected"
              /\ request_queue' = request_queue
         /\ (maxsize = 0 \/ Len(request_queue) < maxsize) =>
              request_queue' = Append(request_queue, r)]_vars

\* Capacity 1: the first put went in, the second was refused, no get between.
PutFailsWhenFullWitness ==
    /\ maxsize = 1
    /\ Len(enq_log) = 1
    /\ promo_log = <<>>
    /\ \E r \in Requests : submit_result[r] = "busy" /\ r > enq_log[1]

\* C8: requests are promoted in the order in which submit enqueued them.
FifoPromotion ==
    /\ Len(promo_log) <= Len(enq_log)
    /\ promo_log = SubSeq(enq_log, 1, Len(promo_log))

\* Two queued requests have both been promoted.
FifoPromotionWitness == Len(promo_log) >= 2

\* C9: submit never returns Immediate while a request submitted earlier waits in
\* the queue: the slot a completion frees goes to the head of the queue.
NoSubmitOvertakesQueue ==
    [][\A r \in Requests :
         (Decides(r) /\ submit_result'[r] = "immediate") => request_queue = <<>>]_vars

\* C10: with max_concurrent = 1, a submit made while the one slot is taken and
\* nothing waits returns Queued; and a queued request begins executing with no
\* call from outside: whenever requests wait in the queue, the queue is later
\* empty, and a request leaves the queue only by being promoted to a task.
QueuedEventuallyRuns ==
    /\ [][\A r \in Requests :
            /\ (Decides(r) /\ max_concurrent = 1 /\ active_count = 1
                  /\ request_queue = <<>>) => submit_result'[r] = "queued"
            /\ (pc[r] = "queued" /\ pc'[r] # "queued") => pc'[r] = "ready"]_vars
    /\ (request_queue # <<>>) ~> (request_queue = <<>>)

\* max_concurrent = 1: A ran at once and is over, B was queued and has begun.
QueuedEventuallyRunsWitness ==
    /\ max_concurrent = 1
    /\ submit_result[1] = "immediate"
    /\ pc[1] = "done"
    /\ submit_result[2] = "queued"
    /\ pc[2] \in {"ready", "llm_wait", "engine"}

\* The execution tasks that have given their slot back.
Freed == {r \in Requests : pc[r] \in {"promo_wait", "promo_get", "done"}}

\* C11: the completions and the worker's ticks never promote twice: there are
\* never more promotions than freed slots, no request is promoted twice, and
\* only requests that submit queued are promoted.
NoDoublePromotion ==
    /\ Len(promo_log) <= Cardinality(Freed)
    /\ \A i, j \in 1..Len(promo_log) : promo_log[i] = promo_log[j] => i = j
    /\ \A i \in 1..Len(promo_log) : submit_result[promo_log[i]] = "queued"

\* After a promotion, a completion is promoting while the worker's tick waits
\* for _lock to promote as well.
NoDoublePromotionWitness ==
    /\ promo_log # <<>>
    /\ request_queue # <<>>
    /\ pc[Worker] = "promo_wait"
    /\ \E r \in Requests : pc[r] = "promo_get"

\* How many end-of-stream markers were put into the channel of r.
Markers(r) ==
    Cardinality({i \in 1..Len(put_log[r]) : put_log[r][i] = Sentinel})

\* C12: the terminal transition of a request happens at most once: complete
\* (which stores stats) and fail (which stores an error) are never both called
\* on it, at most one end-of-stream marker is ever put into its channel, and
\* that marker is there exactly when the completion signal is set.
OneTerminalTransition ==
    \A r \in DOMAIN put_log :
        /\ Markers(r) <= 1
        /\ ~(stats[r] # <<>> /\ error[r] # "none")
        /\ done[r] <=> Markers(r) = 1
        /\ done[r] <=> (stats[r] # <<>> \/ error[r] # "none")

\* A request ended with its increments delivered and one marker after them.
OneTerminalTransitionWitness ==
    \E r \in DOMAIN put_log :
        /\ done[r]
        /\ Len(put_log[r]) = MaxTokens + 1
        /\ pc[r] = "done"

\* C13: every request submit accepted, at once or into the queue, reaches a
\* terminal state: whenever an accepted request has not ended, later every
\* accepted request has (the clients send finitely many).
AcceptedEventuallyTerminal ==
    (\E r \in Requests : Accepted(r) /\ ~done[r])
        ~> (\A r \in Requests : Accepted(r) => done[r])

\* A request that had to queue has completed, another has failed.
AcceptedEventuallyTerminalWitness ==
    \E a, b \in Requests :
        /\ submit_result[a] = "queued"
        /\ done[a]
        /\ error[a] = "none"
        /\ done[b]
        /\ error[b] # "none"

\* C14: the consumer of token_stream() is yielded the increments the backend
\* produced for the request, in the order of production, and when the stream
\* is over (ended or raised, after the terminal signal) it has been yielded
\* all of them, each once.
StreamInOrder ==
    \A r \in DOMAIN streams :
        LET c == streams[r] IN
        /\ Len(c.yielded) <= Len(produced[r])
        /\ c.yielded = SubSeq(produced[r], 1, Len(c.yielded))
        /\ c.pc \in {"ended", "raised"} =>
              /\ c.yielded = produced[r]
              /\ done[r]
              /\ token_queue[r] = <<>>

\* A stream of the most increments was consumed to its end.
StreamInOrderWitness ==
    \E r \in DOMAIN streams :
        /\ streams[r].pc = "ended"
        /\ Len(streams[r].yielded) = MaxTokens
        /\ MaxTokens >= 2

FailureRaisedToConsumer ==
    \A r \in DOMAIN streams :
        LET c == streams[r] IN
        /\ c.pc = "ended" => (error[r] = "none" /\ stats[r] # <<>>)
        /\ c.pc = "raised" =>
              /\ error[r] # "none"
              /\ c.raised = error[r]
              /\ c.yielded = produced[r]
        /\ (error[r] # "none" /\ token_queue[r] = <<>>) => c.pc = "raised"

\* The consumer was yielded an increment and then raised the engine's error.
FailureRaisedToConsumerWitness ==
    \E r \in DOMAIN streams :
        /\ streams[r].pc = "raised"
        /\ streams[r].raised = EngineError
        /\ streams[r].yielded # <<>>

\* C17: get_stats() returns a value only for a request that succeeded (for a
\* failed one it raises the stored error).
StatsOnlyOnSuccess ==
    \A r \in DOMAIN stats_calls :
        stats_calls[r].pc = "returned" => error[r] = "none"

\* C18: get_stats() returns only once the completion signal is set, a caller
\* that found it unset stays suspended until then, and for a request that
\* succeeded the value returned is the stats complete was given (the three
\* counts, not the default).
StatsAfterCompletion ==
    \A r \in DOMAIN stats_calls :
        LET c == stats_calls[r] IN
        /\ c.pc = "returned" => done[r]
        /\ ~done[r] => (c.pc = "waiting" /\ c.waited)
        /\ (c.pc = "returned" /\ error[r] = "none") =>
              /\ c.result = stats[r]
              /\ c.result # <<>>

\* A caller that was suspended got the stats of a full stream.
StatsAfterCompletionWitness ==
    \E r \in DOMAIN stats_calls :
        /\ stats_calls[r].pc = "returned"
        /\ stats_calls[r].waited
        /\ stats_calls[r].result # <<>>
        /\ stats_calls[r].result.completion_tokens = MaxTokens

\* The requests that hold a slot: their task exists and has not given it back.
Holding == {r \in Requests : pc[r] \in {"ready", "llm_wait", "engine", "dec_wait"}}

\* C19: an exception of the engine call of r becomes fail(error) on r alone:
\* in the step r is failed with that error, its task goes on to its finally
\* block, no other request's terminal state, stats or channel changes, and
\* when the task ends the promotion has run (the queue is empty or no slot is
\* free).  Every slot taken is given back exactly once: active_count always
\* is the number of tasks that have not yet given theirs back.
EngineErrorIsolated ==
    /\ [](active_count = Cardinality(Holding))
    /\ [][\A r \in Requests :
            (pc[r] = "engine" /\ error'[r] # "none") =>
                /\ error'[r] = EngineError
                /\ done'[r]
                /\ pc'[r] \in {"dec_wait", "promo_wait", "promo_get", "done"}
                /\ \A x \in Requests \ {r} :
                      /\ error'[x] = error[x]
                      /\ done'[x] = done[x]
                      /\ x \in DOMAIN put_log =>
                            (put_log'[x] = put_log[x] /\ stats'[x] = stats[x])
                /\ pc'[r] = "done" =>
                      (request_queue' = <<>> \/ active_count' >= max_concurrent)]_vars

\* The engine call of one request raised; a request queued behind it was
\* promoted by the failed task and completed.
EngineErrorIsolatedWitness ==
    \E a, b \in Requests :
        /\ error[a] = EngineError
        /\ pc[a] = "done"
        /\ promo_log # <<>>
        /\ promo_log[1] = b
        /\ stats[b] # <<>>
        /\ active_count = 0
        /\ ~shutdown

\* C20: a task that starts when the backend is not loaded fails its request at
\* once with the not-loaded error: in that step the request gets its terminal
\* state, no engine call is started, and _llm_lock and its waiters stay as
\* they were; afterwards the request never reaches the engine.
NotLoadedFailsAtOnce ==
    /\ [](\A r \in DOMAIN put_log :
            error[r] = NotLoaded =>
                /\ produced[r] = <<>>
                /\ put_log[r] = <<Sentinel>>
                /\ pc[r] \notin {"ready", "llm_wait", "engine"}
                /\ r \notin llm_holder)
    /\ [][\A r \in Requests :
            (pc[r] = "ready" /\ ~loaded /\ pc'[r] # "ready") =>
                /\ error'[r] = NotLoaded
                /\ done'[r]
                /\ in_engine' = in_engine
                /\ llm_holder' = llm_holder
                /\ llm_waiters' = llm_waiters]_vars

\* A request failed as not loaded while a benchmark, begun before the model
\* was unloaded, is in the engine and holds _llm_lock.
NotLoadedFailsAtOnceWitness ==
    \E r \in DOMAIN put_log :
        /\ error[r] = NotLoaded
        /\ llm_holder = {BenchCaller}
        /\ pc[BenchCaller] = "engine"

\* C21: the stats a caller of get_stats() receives for a request that
\* succeeded, streaming or not, add up: total_tokens is prompt_tokens plus
\* completion_tokens.
StatsAddUp ==
    \A r \in DOMAIN stats_calls :
        LET c == stats_calls[r] IN
        (c.pc = "returned" /\ error[r] = "none") =>
            c.result.total_tokens =
                c.result.prompt_tokens + c.result.completion_tokens

\* A caller received the stats of a two-word prompt answered in two tokens.
StatsAddUpWitness ==
    \E r \in DOMAIN stats_calls :
        /\ stats_calls[r].pc = "returned"
        /\ error[r] = "none"
        /\ stats_calls[r].result.prompt_tokens = 2
        /\ stats_calls[r].result.completion_tokens = 2
        /\ stats_calls[r].result.total_tokens = 4

\* C22: once stop() has been called, no step dequeues a request and promotes
\* it into execution, on the worker's tick or at the end of an execution task.
NoPromotionAfterStop == [][shutdown => promo_log' = promo_log]_vars

\* C23: submit never waits for an engine call.  Whatever the engine calls do,
\* and if they never return, every wait of a submit for the controller lock
\* ends (a request waits there at most once, so from some point on no submit
\* waits) and the submit returns Immediate, Queued or busy; and when a submit
\* returns, the request it submitted has not reached a terminal state.
SubmitNeverAwaitsEngine ==
    /\ [][\A r \in Requests :
            Decides(r) => (~done'[r] /\ submit_result'[r] # "none")]_vars
    /\ <>[](\A r \in Requests : pc[r] # "submit_wait")

\* A submit waits for the controller lock while an engine call runs under the
\* serialization lock, and an earlier submit has returned Queued for a request
\* that is still in the queue.
SubmitNeverAwaitsEngineWitness ==
    \E r, q, e \in Requests :
        /\ pc[r] = "submit_wait"
        /\ submit_result[q] = "queued" /\ ~done[q]
        /\ pc[e] = "engine" /\ llm_holder = {e}

\* C29 as stated: for every budget asked for, from 1 up, and every throughput,
\* the recommended budget does not exceed the budget asked for.
BudgetWithinRequested ==
    bench.pc = "budget_done" => bench.result <= bench.requested_max_tokens

\* C29, amended: the recommended budget does not exceed the budget asked for
\* when that is 32 or more, and is 32 when it is less.
BudgetWithinFlooredRequest ==
    bench.pc = "budget_done" =>
        IF bench.requested_max_tokens >= 32
        THEN bench.result <= bench.requested_max_tokens
        ELSE bench.result = 32

\* The cap binds: a budget of 100 asked for at 12 tokens per second or more.
BudgetWithinFlooredRequestWitness ==
    /\ bench.pc = "budget_done"
    /\ bench.requested_max_tokens = 100
    /\ bench.completion_tokens_per_second >= Hundredths(12)
    /\ bench.result = 100

\* C30: with 160 or more asked for, the recommended budget is 64 below 4 tokens
\* per second, 96 from 4 to below 8, 128 from 8 to below 12 and 160 from 12 on,
\* and no slower throughput gets a larger budget.
BudgetTable ==
    (bench.pc = "budget_done" /\ bench.requested_max_tokens >= 160) =>
        LET t == bench.completion_tokens_per_second IN
        /\ t < 400 => bench.result = 64
        /\ (400 <= t /\ t < 800) => bench.result = 96
        /\ (800 <= t /\ t < 1200) => bench.result = 128
        /\ 1200 <= t => bench.result = 160
        /\ \A slower \in Rates :
              slower <= t =>
                  recommend_max_tokens(bench.requested_max_tokens, slower)
                      <= bench.result

\* 160 asked for at 8 tokens per second exactly: the third row of the table.
BudgetTableWitness ==
    /\ bench.pc = "budget_done"
    /\ bench.requested_max_tokens = 160
    /\ bench.completion_tokens_per_second = 800
    /\ bench.result = 128

\* C26: benchmark() called while the backend is not loaded raises in that very
\* step, before it takes or waits for the serialization lock and before any
\* engine call, and leaves the controller as it was: the count of active
\* requests, the queue, both locks with their waiters, the engine calls.
BenchmarkRefusedAtOnce ==
    [][(pc[BenchCaller] = "idle" /\ ~loaded /\ pc'[BenchCaller] # "idle") =>
          /\ pc'[BenchCaller] = "raised"
          /\ UNCHANGED <<active_count, request_queue, lock_holder, lock_waiters,
                         llm_holder, llm_waiters, in_engine>>]_vars

\* The benchmark was refused while a request held the serialization lock for
\* its engine call and another request was in the queue.
BenchmarkRefusedAtOnceWitness ==
    /\ pc[BenchCaller] = "raised"
    /\ active_count > 0
    /\ request_queue # <<>>
    /\ \E r \in Requests : llm_holder = {r} /\ pc[r] = "engine"

\* The values of a list that lie in the bound, each at its first place.
RECURSIVE FirstInBound(_)
FirstInBound(list) ==
    IF list = <<>> THEN <<>>
    ELSE LET n == Len(list)
             front == SubSeq(list, 1, n - 1) IN
         IF list[n] \in 256..8192 /\ list[n] \notin Range(front)
         THEN Append(FirstInBound(front), list[n])
         ELSE FirstInBound(front)

\* The context sizes of the profiles a benchmark returned, in their order.
Measured ==
    [i \in 1..Len(bench.result[1].profiles) |->
        bench.result[1].profiles[i].context_size]

\* C24: when the list given has a value in the bound [256, 8192], the context
\* sizes measured are the list with every value outside the bound dropped and
\* every repeated value dropped after its first occurrence, in the order of
\* the list, and the profiles returned are one per such value, in that order.
CandidatesValidated ==
    (bench.pc \in {"measuring", "returned"}
        /\ FirstInBound(bench.context_sizes) # <<>>) =>
        /\ bench.valid_contexts = FirstInBound(bench.context_sizes)
        /\ bench.pc = "returned" =>
               Measured = FirstInBound(bench.context_sizes)

\* A list that repeats its first value behind one out of the bound: that
\* value was measured, once.
CandidatesValidatedWitness ==
    /\ bench.pc = "returned"
    /\ bench.context_sizes = <<8192, 255, 8192>>
    /\ Measured = <<8192>>

\* C25 as stated: when nothing of the list given is valid, because every value
\* is out of the bound or because the list is empty, the benchmark measures
\* one profile, at the configured context size.
FallbackToDefault ==
    (bench.pc = "returned" /\ FirstInBound(bench.context_sizes) = <<>>) =>
        Measured = <<bench.base_ctx>>

\* C25, amended: when the list given is not empty and every value of it is out
\* of the bound, the benchmark measures one profile, at the configured
\* context size.
FallbackToDefaultOfInvalid ==
    (bench.pc = "returned"
        /\ bench.context_sizes # <<>>
        /\ FirstInBound(bench.context_sizes) = <<>>) =>
        Measured = <<bench.base_ctx>>

\* A list of a value below and a value above the bound led to one profile, at
\* the configured size, of as many runs as asked for.
FallbackToDefaultOfInvalidWitness ==
    /\ bench.pc = "returned"
    /\ Range(bench.context_sizes) = {255, 8193}
    /\ Len(bench.result[1].profiles) = 1
    /\ bench.result[1].profiles[1].context_size = DefaultCtx
    /\ bench.result[1].profiles[1].runs = bench.runs

\* Does this step append a profile?
ProfileAdded == Len(bench'.profiles) = Len(bench.profiles) + 1

\* The runs the profile this step appends is made of.
RunsOfProfile == Append(bench.run_results, bench.future[1])

\* Is `avg`, in hundredths, the mean of the whole numbers `values`?
IsMean(avg, values) == avg * Len(values) = Hundredths(Sum(values))

\* Is `avg`, in hundredths, the hundredth nearest to the mean of `values`?
IsMeanToHundredth(avg, values) ==
    LET d == avg * Len(values) - Hundredths(Sum(values)) IN
    /\ 2 * d <= Len(values)
    /\ -2 * d <= Len(values)

\* C27 as stated: a profile reports the arithmetic mean over its runs of the
\* latency, the completion tokens and the completion tokens per second.
ProfileIsMean ==
    [][ProfileAdded =>
          LET p == bench'.profiles[Len(bench'.profiles)] IN
          /\ IsMean(p.avg_latency_ms, field(RunsOfProfile, "latency_ms"))
          /\ IsMean(p.avg_completion_tokens,
                    field(RunsOfProfile, "completion_tokens"))
          /\ IsMean(p.avg_completion_tokens_per_second,
                    field(RunsOfProfile, "completion_tokens_per_second"))]_vars

\* C27, amended: a profile reports, to the nearest hundredth, the arithmetic
\* mean over its runs of the latency, the completion tokens and the completion
\* tokens per second; its time to first token is that of the runs that
\* reported one, averaged the same way, and is null when no run reported one.
ProfileIsRoundedMean ==
    [][ProfileAdded =>
          LET p == bench'.profiles[Len(bench'.profiles)]
              with_ttft == {i \in 1..Len(RunsOfProfile) :
                              RunsOfProfile[i].time_to_first_token_ms # <<>>}
              ttft_sum == Sum([i \in 1..Len(RunsOfProfile) |->
                                 IF i \in with_ttft
                                 THEN RunsOfProfile[i].time_to_first_token_ms[1]
                                 ELSE 0])
          IN
          /\ p.runs = Len(RunsOfProfile)
          /\ IsMeanToHundredth(p.avg_latency_ms,
                               field(RunsOfProfile, "latency_ms"))
          /\ IsMeanToHundredth(p.avg_completion_tokens,
                               field(RunsOfProfile, "completion_tokens"))
          /\ IsMeanToHundredth(p.avg_completion_tokens_per_second,
                               field(RunsOfProfile,
                                     "completion_tokens_per_second"))
          /\ (with_ttft = {}) <=> (p.avg_ttft_ms = <<>>)
          /\ with_ttft # {} =>
                LET d == p.avg_ttft_ms[1] * Cardinality(with_ttft)
                             - Hundredths(ttft_sum) IN
                2 * d <= Cardinality(with_ttft)
                    /\ -2 * d <= Cardinality(with_ttft)]_vars

\* A profile of three runs, one of which reported no time to first token: the
\* latency 433.33 is the mean 1300/3 to the nearest hundredth, and the time to
\* first token 70 is the mean of the two runs that reported 100 and 40.
ProfileIsRoundedMeanWitness ==
    \E i \in 1..Len(bench.profiles) :
        /\ bench.profiles[i].runs = 3
        /\ bench.profiles[i].avg_latency_ms = 43333
        /\ bench.profiles[i].avg_ttft_ms = <<Hundredths(70)>>

\* C28: the context size recommended is that of a profile with the greatest
\* average of completion tokens per second and, among the profiles of that
\* throughput, with the lowest average latency.
RecommendFastest ==
    bench.pc = "returned" =>
        LET ps == bench.result[1].profiles IN
        \E i \in 1..Len(ps) :
            /\ bench.result[1].recommended.N_CTX = ps[i].context_size
            /\ \A j \in 1..Len(ps) :
                  /\ ps[j].avg_completion_tokens_per_second
                         <= ps[i].avg_completion_tokens_per_second
                  /\ ps[j].avg_completion_tokens_per_second
                         = ps[i].avg_completion_tokens_per_second
                       => ps[i].avg_latency_ms <= ps[j].avg_latency_ms

\* Throughput beats latency: of a profile of 10 tokens per second and 300 ms
\* and a later one of 15 tokens per second and 500 ms, the later one is
\* recommended.
RecommendFastestWitness ==
    /\ bench.pc = "returned"
    /\ Len(bench.result[1].profiles) = 2
    /\ bench.result[1].profiles[1].avg_completion_tokens_per_second
          = Hundredths(10)
    /\ bench.result[1].profiles[1].avg_latency_ms = Hundredths(300)
    /\ bench.result[1].profiles[2].avg_completion_tokens_per_second
          = Hundredths(15)
    /\ bench.result[1].profiles[2].avg_latency_ms = Hundredths(500)
    /\ bench.result[1].recommended.N_CTX
          = bench.result[1].profiles[2].context_size

\* C31: for every budget asked for and every throughput, the recommended
\* budget is 32 or more.
BudgetFloored == bench.pc = "budget_done" => bench.result >= 32

\* The floor binds: a budget of 1 asked for at 12 tokens per second or more is
\* answered with 32.
BudgetFlooredWitness ==
    /\ bench.pc = "budget_done"
    /\ bench.requested_max_tokens = 1
    /\ bench.completion_tokens_per_second >= Hundredths(12)
    /\ bench.result = 32

\* The increments among the items put into the channel of r.
Increments(r) == SelectSeq(put_log[r], LAMBDA item : item # Sentinel)

\* C32: for a streaming request that completed, completion_tokens in its stats
\* is the number of increments put into its channel, which is the number of
\* increments a consumer of token_stream() is yielded before the stream ends.
CompletionCountsIncrements ==
    \A r \in DOMAIN stats :
        stats[r] # <<>> =>
            /\ stats[r].completion_tokens = Len(Increments(r))
            /\ (r \in DOMAIN streams /\ streams[r].pc = "ended") =>
                  Len(streams[r].yielded) = stats[r].completion_tokens

\* A stream of the most increments was consumed to its end, its prompt being
\* of another size than its completion.
CompletionCountsIncrementsWitness ==
    \E r \in DOMAIN streams :
        /\ streams[r].pc = "ended"
        /\ stats[r].completion_tokens = MaxTokens
        /\ Len(streams[r].yielded) = MaxTokens
        /\ stats[r].prompt_tokens # MaxTokens

\* C33: a synchronous request that succeeds puts exactly one increment, the
\* text, into its channel and then the end-of-stream marker; one that fails
\* (its engine call raised or was refused, or the backend was not loaded) puts
\* the marker alone; until then the channel was given nothing.  A consumer
\* whose stream is over was yielded the one increment, or none and the error.
SyncDeliversOneIncrement ==
    \A r \in DOMAIN put_log :
        /\ ~done[r] => put_log[r] = <<>>
        /\ (done[r] /\ error[r] = "none") => put_log[r] = <<1, Sentinel>>
        /\ (done[r] /\ error[r] # "none") => put_log[r] = <<Sentinel>>
        /\ (r \in DOMAIN streams /\ streams[r].pc = "ended") =>
              streams[r].yielded = <<1>>
        /\ (r \in DOMAIN streams /\ streams[r].pc = "raised") =>
              streams[r].yielded = <<>>

\* One request succeeded with a result of MaxCount tokens and its
\* consumer read the text and the marker; another's engine call raised and its
\* consumer got the error.
SyncDeliversOneIncrementWitness ==
    \E a, b \in DOMAIN streams :
        /\ streams[a].pc = "ended"
        /\ stats[a].completion_tokens = MaxCount
        /\ put_log[a] = <<1, Sentinel>>
        /\ streams[b].pc = "raised"
        /\ streams[b].raised = EngineError
        /\ put_log[b] = <<Sentinel>>

\* C34: whatever the consumers do (never read, stop reading, give up), every
\* accepted request reaches its terminal state and its task ends, every slot
\* is given back and every queued request is promoted: from some point on no
\* accepted request is unfinished, no slot is taken and the queue is empty.
AbandonedNeverLeaks ==
    <>[](/\ \A r \in Requests : Accepted(r) => (done[r] /\ pc[r] = "done")
         /\ active_count = 0
         /\ request_queue = <<>>)

\* A request whose consumer gave up mid-stream has ended with increments left
\* in its channel; the request queued behind it was promoted and has ended
\* too, its channel never read; no slot is taken.
AbandonedNeverLeaksWitness ==
    \E a, b \in Requests :
        /\ a \in DOMAIN streams
        /\ streams[a].pc = "cancelled"
        /\ streams[a].yielded # <<>>
        /\ Len(token_queue[a]) >= 2
        /\ pc[a] = "done"
        /\ b \notin DOMAIN streams
        /\ promo_log = <<b>>
        /\ pc[b] = "done"
        /\ Len(token_queue[b]) = MaxTokens + 1
        /\ active_count = 0

\* C35: whenever _lock is free, active_count is the number of execution tasks
\* launched (by submit or by a promotion) that have not yet run their
\* decrement, those waiting for _llm_lock included; a task that has run it
\* has ended its request, by success, by an engine failure or because the
\* backend was not loaded, and is counted no more.
ActiveCountIsTasks ==
    /\ lock_holder = {} => active_count = Cardinality(Holding)
    /\ \A r \in Freed :
          /\ done[r]
          /\ stats[r] # <<>> \/ error[r] \in {EngineError, NotLoaded}

\* Three tasks have ended, one by success, one by an engine failure and one
\* because the backend was not loaded, after a promotion: no slot is counted.
ActiveCountIsTasksWitness ==
    \E a, b, c \in Requests :
        /\ pc[a] = "done" /\ stats[a] # <<>>
        /\ pc[b] = "done" /\ error[b] = EngineError
        /\ pc[c] = "done" /\ error[c] = NotLoaded
        /\ promo_log # <<>>
        /\ lock_holder = {}
        /\ active_count = 0

\* How many times request r occurs in a sequence of requests.
Occurrences(seq, r) == Cardinality({i \in 1..Len(seq) : seq[i] = r})

\* The places an accepted request can be in.
Waiting(r) == Occurrences(request_queue, r) >= 1
Executing(r) == pc[r] \in {"ready", "llm_wait", "engine"} /\ ~done[r]
Terminal(r) == done[r]

Unfinished ==
    {r \in Requests : pc[r] \in {"ready", "llm_wait", "engine", "dec_wait",
                                  "promo_wait", "promo_get"}}

\* C37: without the background tick, the completions alone drain the queue:
\* whenever requests wait in the queue a task is in flight or has its
\* promotion step pending, and from some point on the queue is empty and
\* every request that was queued has been promoted.
CompletionsDrainQueue ==
    /\ [](request_queue # <<>> => Unfinished # {})
    /\ <>[](/\ request_queue = <<>>
            /\ \A r \in Requests :
                  submit_result[r] = "queued" => Occurrences(promo_log, r) = 1)

\* Two requests were queued behind a single slot and both were promoted, the
\* worker never having started.
CompletionsDrainQueueWitness ==
    /\ max_concurrent = 1
    /\ Len(promo_log) = 2
    /\ request_queue = <<>>
    /\ pc[Worker] = "init"
    /\ ~running

\* C38: _llm_lock is held only while an engine call of its holder is in
\* flight: when the call of a request returns or raises, and when a call of
\* the benchmark raises or its last one returns, the lock is released in that
\* step.  No request that has ended and no benchmark that is over holds it,
\* and when it is free the first of its waiters is ready to take it.
LlmLockReleasedAfterCall ==
    /\ \A p \in llm_holder : \E c \in in_engine : c.who = p
    /\ \A r \in Requests : done[r] => r \notin llm_holder
    /\ pc[BenchCaller] # "engine" => BenchCaller \notin llm_holder
    /\ (llm_holder = {} /\ llm_waiters # <<>>) =>
          pc[Head(llm_waiters)] = "llm_wait"

\* The engine call of a request raised (the pool was not shut down), and a
\* benchmark that came later holds the lock and is in the engine.
LlmLockReleasedAfterCallWitness ==
    \E r \in Requests :
        /\ error[r] = EngineError
        /\ ~shutdown
        /\ llm_holder = {BenchCaller}
        /\ pc[BenchCaller] = "engine"

\* The accepted requests that have not reached a terminal state.
Pending == {r \in Requests : Accepted(r) /\ ~done[r]}

\* C39: with a queue capacity of one or more, the accepted requests that have
\* not reached a terminal state are never more than max_concurrent plus that
\* capacity.
PendingBounded ==
    maxsize >= 1 => Cardinality(Pending) <= max_concurrent + maxsize

\* The bound is reached, every slot taken and the queue at its capacity, and
\* the next request was turned away.
PendingBoundedWitness ==
    /\ maxsize >= 1
    /\ Cardinality(Pending) = max_concurrent + maxsize
    /\ active_count = max_concurrent
    /\ Len(request_queue) = maxsize
    /\ \E r \in Requests : submit_result[r] = "busy"

\* The task of r comes to dispatch its engine call in this step: it starts
\* with the backend loaded and _llm_lock free, or it is given _llm_lock.
Dispatches(r) ==
    /\ \/ pc[r] = "ready" /\ loaded /\ llm_free(State)
       \/ pc[r] = "llm_wait"
    /\ pc'[r] # pc[r]

\* C40: once stop() has shut the pool down, a request that comes to dispatch
\* its engine call (submitted with a free slot, or promoted, or kept waiting
\* for _llm_lock) is refused: in that step it is failed with the error, no
\* engine call starts, _llm_lock is left, and its task goes on to give its
\* slot back.  No request fails otherwise, none hangs: from some point on
\* every accepted request has ended, its task is over and no slot is taken.
RefusedAfterStop ==
    /\ [][\A r \in Requests :
            /\ (shutdown /\ Dispatches(r)) =>
                  /\ error'[r] = EngineError
                  /\ done'[r]
                  /\ in_engine' = in_engine
                  /\ r \notin llm_holder'
                  /\ pc'[r] \in {"dec_wait", "promo_wait", "promo_get", "done"}
                  /\ pc'[r] # "dec_wait" =>
                        active_count' = active_count - 1
                                          + (Len(promo_log') - Len(promo_log))
            /\ (~shutdown /\ Dispatches(r)) => pc'[r] = "engine"]_vars
    /\ [](\A r \in Requests : error[r] # "none" => shutdown)
    /\ <>[](/\ \A r \in Requests : Accepted(r) => (done[r] /\ pc[r] = "done")
            /\ active_count = 0)

\* After stop(), a request submitted with a free slot and a request promoted
\* from the queue were both refused and failed, and no slot is taken.
RefusedAfterStopWitness ==
    \E a, b \in Requests :
        /\ shutdown
        /\ submit_result[a] = "immediate" /\ error[a] = EngineError
        /\ submit_result[b] = "queued" /\ error[b] = EngineError
        /\ pc[a] = "done" /\ pc[b] = "done"
        /\ active_count = 0

====
